---- MODULE Spec2Model ----
(***************************************************************************)
(* Model of the field-projection engine of main.go: Result.With, its field *)
(* resolver sanitizeFields, the chunk planner computeDelta and the worker  *)
(* doTransform.                                                            *)
(*                                                                         *)
(* A Go string is a sequence of characters; a character is written as a    *)
(* one-letter string, and the characters of the trim set by their names    *)
(* ("NL" newline, "BEL" bell, "BS" backspace, "FF" form feed, "CR"         *)
(* carriage return, "TAB", "VT" vertical tab, "SP" space).                 *)
(***************************************************************************)
EXTENDS Integers, Sequences, FiniteSets, TLC

(***************************************************************************)
(* Bounds of the model.                                                    *)
(***************************************************************************)
\* longest list of requested names drawn from RawNames
MaxFields == 2
\* payload sizes 0..MaxSmall are explored with every field list
MaxSmall == 3
\* the chunk planner alone is applied to every size 0..MaxPlanned
MaxPlanned == 10002
\* for payloads up to this size the workers interleave entry by entry
MaxStepped == 101

VARIABLES
    T,                \* the type argument of Result[T]: [kind, dyn, schema]
    r,                \* the receiver: [Page, RPP, Payload, PayloadNil, buf];
                      \* buf names the backing array of Payload
    fields,           \* the requested names passed to With
    pc,               \* position of the With call
    transformed,      \* the result under construction / returned
    kind,             \* reflect kind of r.Payload[0]
    delta,            \* fan-out degree
    chunkSize,        \* payloadSize / delta
    chunks,           \* chunks[i]: output buffer of worker i
    wg,               \* counter of the sync.WaitGroup
    sanitizedFields,  \* descriptors resolved by sanitizeFields[T]
    i,                \* loop counter of the dispatch loop
    worker,           \* worker[w]: [st, lo, hi, out, n] goroutine state, its
                      \* slice r.Payload[lo:hi], the chunk out points to and
                      \* the number of entries of the slice it has done
    payloadSize,      \* len(r.Payload), taken at line 149
    completed         \* history: the workers in the order they called
                      \* Done; kept past the return only for the payloads
                      \* whose workers are stepped

vars == <<T, r, fields, pc, transformed, kind, delta, chunkSize, chunks, wg,
          sanitizedFields, i, worker, payloadSize, completed>>

(***************************************************************************)
(* Strings.                                                                *)
(***************************************************************************)
\* the cutset "\n\a\b\f\r\t\v " of the two strings.Trim calls on requested names
Cutset == {"NL", "BEL", "BS", "FF", "CR", "TAB", "VT", "SP"}

RECURSIVE TrimLeft(_, _)
TrimLeft(s, cut) ==
    IF s # <<>> /\ Head(s) \in cut THEN TrimLeft(Tail(s), cut) ELSE s

RECURSIVE TrimRight(_, _)
TrimRight(s, cut) ==
    IF s # <<>> /\ s[Len(s)] \in cut
    THEN TrimRight(SubSeq(s, 1, Len(s) - 1), cut)
    ELSE s

\* strings.Trim(s, cutset)
Trim(s, cut) == TrimRight(TrimLeft(s, cut), cut)

\* strings.Split(s, ",")[0]: the text before the first comma
RECURSIVE SplitFirst(_)
SplitFirst(s) ==
    IF s = <<>> \/ Head(s) = "," THEN <<>> ELSE <<Head(s)>> \o SplitFirst(Tail(s))

(***************************************************************************)
(* Types and values.  A type is [kind, schema]: its reflect kind and, for  *)
(* a struct, its declared fields [Name, Tag] in declaration order (Tag is  *)
(* the value of the json key of the field tag).  A payload element is      *)
(* [k, v]: the kind of its dynamic type ("Nil" for a nil interface value)  *)
(* and, for a struct or a map, the function from field names or keys to    *)
(* values.                                                                 *)
(***************************************************************************)
Upper == {"A", "B", "C", "D", "E", "F", "G", "H", "I", "J", "K", "L", "M",
          "N", "O", "P", "Q", "R", "S", "T", "U", "V", "W", "X", "Y", "Z"}

\* a struct field is exported when its name starts with an upper-case letter
IsExported(name) == name # <<>> /\ name[1] \in Upper

\* type User, reduced to its first two fields
UserSchema ==
    << [Name |-> <<"I", "D">>, Tag |-> <<"i", "d">>],
       [Name |-> <<"F", "i", "r", "s", "t", "N", "a", "m", "e">>,
        Tag |-> <<"f", "i", "r", "s", "t", "_", "n", "a", "m", "e">>] >>

\* sanitizedField: [2]string, snake at index 0 and pascal at index 1
snake(s) == s[1]
pascal(s) == s[2]

\* variant of contains that never finds the needle
containsNever(haystack, needle) == FALSE

\* contains: some descriptor of the haystack has the needle as its snake name
contains(haystack, needle) ==
    \E j \in 1..Len(haystack) : needle = snake(haystack[j])

\* the alias of a declared field: strings.Trim(strings.Split(tag, ",")[0], " ")
tagValue(record) == Trim(SplitFirst(record.Tag), {"SP"})

\* inner loop of the struct case: for i := 0; i < t.NumField(); i++
RECURSIVE structInner(_, _, _, _)
structInner(acc, field, schema, n) ==
    IF n > Len(schema) THEN acc
    ELSE LET sanitized == <<tagValue(schema[n]), schema[n].Name>>
         IN  structInner(
                 IF snake(sanitized) = field /\ ~contains(acc, snake(sanitized))
                 THEN Append(acc, sanitized) ELSE acc,
                 field, schema, n + 1)

\* variant of structFields that walks the schema first and so answers in
\* declaration order
structFieldsSchemaOrder(acc, flds, schema) ==
    LET names == {Trim(flds[j], Cutset) : j \in 1..Len(flds)} \ {<<>>}
        RECURSIVE scan(_, _)
        scan(a, n) ==
            IF n > Len(schema) THEN a
            ELSE LET sanitized == <<tagValue(schema[n]), schema[n].Name>>
                 IN  scan(IF snake(sanitized) \in names /\ ~contains(a, snake(sanitized))
                          THEN Append(a, sanitized) ELSE a,
                          n + 1)
    IN  scan(acc, 1)

\* struct case: for _, field := range fields
RECURSIVE structFields(_, _, _)
structFields(acc, flds, schema) ==
    IF flds = <<>> THEN acc
    ELSE LET field == Trim(Head(flds), Cutset)
         IN  structFields(
                 IF field = <<>> THEN acc ELSE structInner(acc, field, schema, 1),
                 Tail(flds), schema)

\* variant of mapFields that also stores the key as the second string
RECURSIVE mapFieldsBothNames(_, _)
mapFieldsBothNames(acc, flds) ==
    IF flds = <<>> THEN acc
    ELSE LET key == Trim(Head(flds), Cutset)
         IN  mapFieldsBothNames(
                 IF key # <<>> /\ ~contains(acc, key)
                 THEN Append(acc, <<key, key>>) ELSE acc,
                 Tail(flds))

\* map case: for _, key := range fields
RECURSIVE mapFields(_, _)
mapFields(acc, flds) ==
    IF flds = <<>> THEN acc
    ELSE LET key == Trim(Head(flds), Cutset)
         IN  mapFields(
                 IF key # <<>> /\ ~contains(acc, key)
                 THEN Append(acc, <<key, <<>> >>) ELSE acc,
                 Tail(flds))

\* sanitizeFields[T] dereferences a nil reflect.Type when T is an interface type
sanitizeFieldsPanics(t) == t.kind = "Interface"

\* sanitizeFields[T](fields...), for T not an interface type
sanitizeFields(t, flds) ==
    CASE t.kind = "Struct" -> structFields(<<>>, flds, t.schema)
      [] t.kind = "Map" -> mapFields(<<>>, flds)
      [] OTHER -> <<>>

(***************************************************************************)
(* Chunk planner.                                                          *)
(***************************************************************************)
\* variant of computeDelta with exclusive upper bounds
computeDeltaExclusive(size) ==
    CASE size < 1 \/ size < 10^2 -> 1
      [] size >= 10^2 /\ size < 10^3 -> 2
      [] size >= 10^3 /\ size < 10^4 -> 3
      [] OTHER -> 4

\* variant of computeDelta with a fixed fan-out
computeDeltaAlwaysFour(size) == 4

computeDelta(size) ==
    CASE size <= 1 \/ size <= 10^2 -> 1
      [] size > 10^2 /\ size <= 10^3 -> 2
      [] size > 10^3 /\ size <= 10^4 -> 3
      [] OTHER -> 4

\* first index of the slice handed to worker n: i*chunkSize
chunkStart(n, size) == n * size

\* variant of chunkOut in which every worker is handed &chunks[0]
chunkOutZero(n) == 0

\* the chunk worker n appends to: &chunks[i]
chunkOut(n) == n

\* variant of chunkEnd in which the last slice does not take the remainder
chunkEndNoRemainder(n, d, size, total) == (1 + n) * size

\* end of the slice handed to worker n
chunkEnd(n, d, size, total) ==
    IF 1 + n = d THEN total ELSE (1 + n) * size

(***************************************************************************)
(* Projection worker.                                                      *)
(***************************************************************************)
\* value.Interface() panics on a value obtained from an unexported field
fieldPanics(k, entry, field) ==
    /\ k = "Struct"
    /\ pascal(field) \in DOMAIN entry.v
    /\ ~IsExported(pascal(field))

entryPanics(k, entry, flds) ==
    \E j \in 1..Len(flds) : fieldPanics(k, entry, flds[j])

\* variant of extractField that stores a struct value under the field's
\* declared name
extractFieldPascalKey(k, entry, field, entryFields) ==
    CASE k = "Struct" /\ pascal(field) \in DOMAIN entry.v ->
             (pascal(field) :> entry.v[pascal(field)]) @@ entryFields
      [] k = "Map" /\ snake(field) \in DOMAIN entry.v ->
             (snake(field) :> entry.v[snake(field)]) @@ entryFields
      [] OTHER -> entryFields

\* variant of extractField that emits a key for a map record without it
extractFieldAlways(k, entry, field, entryFields) ==
    CASE k = "Struct" /\ pascal(field) \in DOMAIN entry.v ->
             (snake(field) :> entry.v[pascal(field)]) @@ entryFields
      [] k = "Map" ->
             (snake(field) :> IF snake(field) \in DOMAIN entry.v
                              THEN entry.v[snake(field)] ELSE 0) @@ entryFields
      [] OTHER -> entryFields

\* one descriptor applied to one entry: the body of for _, field := range fields
extractField(k, entry, field, entryFields) ==
    CASE k = "Struct" /\ pascal(field) \in DOMAIN entry.v ->
             (snake(field) :> entry.v[pascal(field)]) @@ entryFields
      [] k = "Map" /\ snake(field) \in DOMAIN entry.v ->
             (snake(field) :> entry.v[snake(field)]) @@ entryFields
      [] OTHER -> entryFields

\* the entryFields map built for one entry
RECURSIVE projectEntry(_, _, _, _)
projectEntry(k, entry, flds, entryFields) ==
    IF flds = <<>> THEN entryFields
    ELSE projectEntry(k, entry, Tail(flds),
                      extractField(k, entry, Head(flds), entryFields))

\* variant of transformSlice that appends nothing for an entry without a match
transformSliceSkipEmpty(k, in, flds) ==
    SelectSeq([j \in 1..Len(in) |-> projectEntry(k, in[j], flds, <<>>)],
              LAMBDA e : e # <<>>)

\* the entries doTransform appends to *out for the slice in
transformSlice(k, in, flds) ==
    [j \in 1..Len(in) |-> projectEntry(k, in[j], flds, <<>>)]

(***************************************************************************)
(* Inputs: the types T the call is instantiated with, the payloads and the *)
(* requested names.                                                        *)
(***************************************************************************)
FirstName == <<"f", "i", "r", "s", "t", "_", "n", "a", "m", "e">>
Unknown == <<"u", "n", "k", "n", "o", "w", "n">>
NameAlias == <<"n", "a", "m", "e">>

\* a struct whose only field has the alias name
NameSchema == << [Name |-> <<"N", "a", "m", "e">>, Tag |-> NameAlias] >>

\* two fields with the alias x (the second with a tag option), an alias
\* padded with spaces, and a field without a json tag
SchemaXY ==
    << [Name |-> <<"X">>, Tag |-> <<"x">>],
       [Name |-> <<"X", "2">>, Tag |-> <<"x", ",", "o">>],
       [Name |-> <<"Y">>, Tag |-> <<"SP", "y", "SP">>],
       [Name |-> <<"Z">>, Tag |-> <<>>] >>

\* an unexported field that carries a json tag
SchemaSecret ==
    << [Name |-> <<"X">>, Tag |-> <<"x">>],
       [Name |-> <<"y">>, Tag |-> <<"y">>] >>

\* dyn, dynSchema: the dynamic type of the payload elements, which is T
\* itself unless T is an interface type
TypeCases ==
    {[kind |-> "Struct", schema |-> sc, dyn |-> "Struct", dynSchema |-> sc] :
        sc \in {UserSchema, NameSchema, SchemaXY, SchemaSecret}}
    \cup {[kind |-> "Map", schema |-> <<>>, dyn |-> "Map", dynSchema |-> <<>>],
          [kind |-> "Int", schema |-> <<>>, dyn |-> "Int", dynSchema |-> <<>>],
          [kind |-> "Interface", schema |-> <<>>, dyn |-> "Struct",
           dynSchema |-> UserSchema],
          [kind |-> "Interface", schema |-> <<>>, dyn |-> "Map", dynSchema |-> <<>>],
          [kind |-> "Interface", schema |-> <<>>, dyn |-> "Int", dynSchema |-> <<>>],
          [kind |-> "Interface", schema |-> <<>>, dyn |-> "Nil", dynSchema |-> <<>>]}

\* the keys map records are built from
MapKeys == << <<"x">>, <<"y">> >>

\* key number c is present in record j of the given payload variant
HasKey(variant, j, c) == IF c = 1 THEN (j + variant) % 2 = 1 ELSE (j + variant) % 3 # 0

\* record j of a payload: every field or key holds a value of its own
Element(tc, variant, j) ==
    CASE tc.dyn = "Struct" ->
             [k |-> "Struct",
              v |-> [f \in {tc.dynSchema[c].Name : c \in 1..Len(tc.dynSchema)} |->
                        10 * j + (CHOOSE c \in 1..Len(tc.dynSchema) :
                                      tc.dynSchema[c].Name = f)]]
      [] tc.dyn = "Map" ->
             [k |-> "Map",
              v |-> [key \in {MapKeys[c] : c \in {c \in 1..Len(MapKeys) : HasKey(variant, j, c)}} |->
                        10 * j + (CHOOSE c \in 1..Len(MapKeys) : MapKeys[c] = key)]]
      [] OTHER -> [k |-> tc.dyn, v |-> <<>>]

MakePayload(tc, variant, n) == [j \in 1..n |-> Element(tc, variant, j)]

\* raw requested names: empty, only padding, padded and bare spellings
RawNames ==
    { <<>>, <<"SP">>, <<"x">>, <<"SP", "x", "SP">>, <<"x", "NL">>, <<"y">>,
      <<"u">> }

RECURSIVE SeqsUpTo(_, _)
SeqsUpTo(S, n) ==
    IF n = 0 THEN {<<>>}
    ELSE LET shorter == SeqsUpTo(S, n - 1)
         IN  shorter \cup {Append(q, e) : q \in shorter, e \in S}

\* the calls named by the specification's scenarios
ScenarioFields ==
    { <<FirstName, FirstName \o <<"SP">>, Unknown, <<>> >>,
      <<NameAlias, <<"SP">> \o NameAlias \o <<"SP">>, NameAlias \o <<"NL">> >>,
      << <<"TAB", "x", "VT">>, <<"BEL", "y", "BS">>, <<"x", "FF">>, <<"CR", "y">> >> }

\* payload sizes on both sides of every threshold of computeDelta
ThresholdSizes == {10^2, 10^2 + 1, 10^3, 10^3 + 1, 10^4, 10^4 + 1}

\* the types the threshold sizes are explored with
BigTypeCases == {tc \in TypeCases : tc.schema = UserSchema \/ tc.kind = "Map"}

PageRPP == { <<1, 10>>, <<2, 25>> }

(***************************************************************************)
(* Result.With.                                                            *)
(***************************************************************************)
\* the zero Result, before the call has built one
NoResult ==
    [Page |-> 0, RPP |-> 0, Payload |-> <<>>, PayloadNil |-> TRUE, buf |-> "none"]

\* variant of newTransformed with the two numbers exchanged
newTransformedSwapped(res) ==
    [Page |-> res.RPP, RPP |-> res.Page, Payload |-> <<>>, PayloadNil |-> FALSE,
     buf |-> "empty"]

\* &Result[map[string]any]{Page: r.Page, RPP: r.RPP, Payload: make(..., 0)}
newTransformed(res) ==
    [Page |-> res.Page, RPP |-> res.RPP, Payload |-> <<>>, PayloadNil |-> FALSE,
     buf |-> "empty"]

\* variant of makePayload that reuses the input's array: r.Payload[:0]
makePayloadReuse(res, size) == res.buf

\* line 163: make([]map[string]any, 0, payloadSize) allocates a new array
makePayload(res, size) == "joined"

\* the appends of line 176 store into the backing array of out.Payload; the
\* Result res sees them when its Payload has the same backing array
storeInto(res, out) ==
    IF out.buf = res.buf
    THEN [res EXCEPT !.Payload =
             [j \in 1..Len(@) |->
                 IF j <= Len(out.Payload) THEN out.Payload[j] ELSE @[j]]]
    ELSE res

\* variant of waitReturns without the wait
waitReturnsAtOnce(counter) == TRUE

\* line 174: wg.Wait() returns when the counter is zero
waitReturns(counter) == counter = 0

\* variant of shortCircuit without the test of the requested names
shortCircuitNoFieldsTest(flds, res) == res.PayloadNil \/ Len(res.Payload) = 0

\* 0 == len(fields) || nil == r.Payload || 0 == payloadSize
shortCircuit(flds, res) ==
    Len(flds) = 0 \/ res.PayloadNil \/ Len(res.Payload) = 0

\* variant of unsupportedKind that accepts structs only
unsupportedKindMapToo(k) == k # "Struct"

\* reflect.Struct != kind && reflect.Map != kind
unsupportedKind(k) == k # "Struct" /\ k # "Map"

\* for i := 0; i < delta; i++ { Payload = append(Payload, chunks[i]...) }
RECURSIVE aggregateFrom(_, _, _, _)
aggregateFrom(payload, chs, n, d) ==
    IF n >= d THEN payload ELSE aggregateFrom(payload \o chs[n], chs, n + 1, d)

\* variant of aggregate that joins the chunks from the last to the first
RECURSIVE aggregateDescending(_, _, _)
aggregateDescending(payload, chs, d) ==
    IF d = 0 THEN payload ELSE aggregateDescending(payload \o chs[d - 1], chs, d - 1)

\* variant of aggregate that joins the chunks in the order their workers
\* called Done
aggregateCompletionOrder(payload, chs, d) ==
    LET RECURSIVE join(_, _)
        join(acc, n) ==
            IF n > Len(completed) THEN acc
            ELSE join(acc \o chs[completed[n]], n + 1)
    IN  join(payload, 1)

\* lines 175-177: the chunks joined in ascending index order
aggregate(payload, chs, d) == aggregateFrom(payload, chs, 0, d)

Init ==
    /\ T \in TypeCases
    /\ \E n \in (0..MaxSmall) \cup ThresholdSizes, variant \in 0..1,
          pr \in PageRPP, isNil \in BOOLEAN :
          /\ isNil => n = 0
          /\ T.dyn # "Map" => variant = 0
          /\ n > MaxSmall => T \in BigTypeCases /\ variant = 0 /\ pr[1] = 1
          /\ r = [Page |-> pr[1], RPP |-> pr[2],
                  Payload |-> MakePayload(T, variant, n), PayloadNil |-> isNil,
                  buf |-> "payload"]
          /\ fields \in IF n > MaxSmall THEN ScenarioFields
                        ELSE SeqsUpTo(RawNames, MaxFields) \cup ScenarioFields
    /\ pc = "call"
    /\ transformed = NoResult
    /\ kind = "Invalid"
    /\ delta = 0
    /\ chunkSize = 0
    /\ chunks = <<>>
    /\ wg = 0
    /\ sanitizedFields = <<>>
    /\ i = 0
    /\ worker = <<>>
    /\ payloadSize = 0
    /\ completed = <<>>

\* lines 148-152: the call returns the empty result at once
WithShortCircuit ==
    /\ pc = "call"
    /\ shortCircuit(fields, r)
    /\ transformed' = newTransformed(r)
    /\ pc' = "done"
    /\ payloadSize' = Len(r.Payload)
    /\ UNCHANGED <<T, r, fields, kind, delta, chunkSize, chunks, wg,
                   sanitizedFields, i, worker, completed>>

\* line 153: reflect.TypeOf of a nil interface value is nil, and Kind() panics
WithKindPanic ==
    /\ pc = "call"
    /\ ~shortCircuit(fields, r)
    /\ r.Payload[1].k = "Nil"
    /\ transformed' = newTransformed(r)
    /\ pc' = "panic"
    /\ payloadSize' = Len(r.Payload)
    /\ UNCHANGED <<T, r, fields, kind, delta, chunkSize, chunks, wg,
                   sanitizedFields, i, worker, completed>>

\* lines 153-156: the first element is neither a struct nor a map
WithUnsupported ==
    /\ pc = "call"
    /\ ~shortCircuit(fields, r)
    /\ r.Payload[1].k # "Nil"
    /\ unsupportedKind(r.Payload[1].k)
    /\ transformed' = newTransformed(r)
    /\ kind' = r.Payload[1].k
    /\ pc' = "done"
    /\ payloadSize' = Len(r.Payload)
    /\ UNCHANGED <<T, r, fields, delta, chunkSize, chunks, wg,
                   sanitizedFields, i, worker, completed>>

\* lines 148-166: plan the chunks, set the wait counter, resolve the names
WithPlan ==
    /\ pc = "call"
    /\ ~shortCircuit(fields, r)
    /\ r.Payload[1].k # "Nil"
    /\ ~unsupportedKind(r.Payload[1].k)
    /\ LET size == Len(r.Payload)
           d == computeDelta(size)
       IN  /\ payloadSize' = size
           /\ transformed' = [newTransformed(r) EXCEPT
                                 !.buf = makePayload(r, size)]
           /\ kind' = r.Payload[1].k
           /\ delta' = d
           /\ chunkSize' = size \div d
           /\ chunks' = [w \in 0..(d - 1) |-> <<>>]
           /\ worker' = [w \in 0..(d - 1) |->
                            [st |-> "none", lo |-> 0, hi |-> 0, out |-> 0,
                             n |-> 0]]
           /\ wg' = d
    /\ IF sanitizeFieldsPanics(T)
       THEN pc' = "panic" /\ UNCHANGED sanitizedFields
       ELSE pc' = "dispatch" /\ sanitizedFields' = sanitizeFields(T, fields)
    /\ i' = 0
    /\ UNCHANGED <<T, r, fields, completed>>

\* lines 167-173: one iteration of the dispatch loop starts worker i
WithDispatch ==
    /\ pc = "dispatch"
    /\ i < delta
    /\ worker' = [worker EXCEPT ![i] =
                     [st |-> "ready",
                      lo |-> chunkStart(i, chunkSize),
                      hi |-> chunkEnd(i, delta, chunkSize, payloadSize),
                      out |-> chunkOut(i),
                      n |-> 0]]
    /\ i' = i + 1
    /\ pc' = IF i + 1 < delta THEN "dispatch" ELSE "wait"
    /\ UNCHANGED <<T, r, fields, transformed, kind, delta, chunkSize, chunks, wg,
                   sanitizedFields, payloadSize, completed>>

\* the slice r.Payload[lo:hi] handed to worker w
workerIn(w) == SubSeq(r.Payload, worker[w].lo + 1, worker[w].hi)

\* the entries of its slice that worker w has still to do
workerLeft(w) == worker[w].hi - worker[w].lo - worker[w].n

\* lines 124-143: the next k iterations of the loop of worker w
doTransformRun(w, k) ==
    /\ pc \in {"dispatch", "wait"}
    /\ worker[w].st = "ready"
    /\ LET in == SubSeq(workerIn(w), worker[w].n + 1, worker[w].n + k)
           bad == {j \in 1..Len(in) : entryPanics(kind, in[j], sanitizedFields)}
       IN  IF bad = {}
           THEN /\ chunks' = [chunks EXCEPT ![worker[w].out] =
                                 @ \o transformSlice(kind, in, sanitizedFields)]
                /\ worker' = [worker EXCEPT
                                 ![w].n = @ + k,
                                 ![w].st = IF k = workerLeft(w)
                                           THEN "ran" ELSE "ready"]
                /\ pc' = pc
           ELSE /\ chunks' = [chunks EXCEPT ![worker[w].out] =
                                 @ \o transformSlice(kind,
                                         SubSeq(in, 1, (CHOOSE j \in bad :
                                                   \A o \in bad : j <= o) - 1),
                                         sanitizedFields)]
                /\ worker' = worker
                /\ pc' = "panic"
    /\ UNCHANGED <<T, r, fields, transformed, kind, delta, chunkSize, wg,
                   sanitizedFields, i, payloadSize, completed>>

\* one iteration of the loop of worker w
doTransformStep(w) ==
    /\ payloadSize <= MaxStepped
    /\ workerLeft(w) >= 1
    /\ doTransformRun(w, 1)

\* all the iterations worker w has left, without another step in between
doTransformLoop(w) == doTransformRun(w, workerLeft(w))

\* line 123: the deferred wg.Done() of worker w
doTransformDone(w) ==
    /\ pc \in {"dispatch", "wait"}
    /\ worker[w].st = "ran"
    /\ wg' = wg - 1
    /\ worker' = [worker EXCEPT ![w].st = "done"]
    /\ completed' = Append(completed, w)
    /\ UNCHANGED <<T, r, fields, pc, transformed, kind, delta, chunkSize, chunks,
                   sanitizedFields, i, payloadSize>>

\* lines 174-178: wg.Wait() returns, the chunks are joined, With returns
WithReturn ==
    /\ pc = "wait"
    /\ waitReturns(wg)
    /\ transformed' = [transformed EXCEPT
                          !.Payload = aggregate(@, chunks, delta)]
    /\ r' = storeInto(r, transformed')
    /\ pc' = "done"
    /\ completed' = IF payloadSize <= MaxStepped THEN completed ELSE <<>>
    /\ UNCHANGED <<T, fields, kind, delta, chunkSize, chunks, wg,
                   sanitizedFields, i, worker, payloadSize>>

Next ==
    \/ WithShortCircuit
    \/ WithKindPanic
    \/ WithUnsupported
    \/ WithPlan
    \/ WithDispatch
    \/ \E w \in DOMAIN worker : doTransformStep(w)
    \/ \E w \in DOMAIN worker : doTransformLoop(w)
    \/ \E w \in DOMAIN worker : doTransformDone(w)
    \/ WithReturn

Spec == Init /\ [][Next]_vars

(***************************************************************************)
(* The chunk planner on its own: the arithmetic of lines 157-158 and       *)
(* 168-172 applied to a payload size, for every size up to MaxPlanned.     *)
(***************************************************************************)
PlanInit ==
    /\ T = [kind |-> "Map", schema |-> <<>>, dyn |-> "Map", dynSchema |-> <<>>]
    /\ r = [Page |-> 1, RPP |-> 10, Payload |-> <<>>, PayloadNil |-> FALSE,
            buf |-> "payload"]
    /\ fields = <<>>
    /\ pc = "plan"
    /\ transformed = NoResult
    /\ kind = "Invalid"
    /\ delta = 0
    /\ chunkSize = 0
    /\ chunks = <<>>
    /\ wg = 0
    /\ sanitizedFields = <<>>
    /\ i = 0
    /\ worker = <<>>
    /\ payloadSize \in 0..MaxPlanned
    /\ completed = <<>>

\* delta, chunkSize and the bounds i*chunkSize and end of every slice
PlanChunks ==
    /\ pc = "plan"
    /\ LET d == computeDelta(payloadSize)
           size == payloadSize \div d
       IN  /\ delta' = d
           /\ chunkSize' = size
           /\ worker' = [w \in 0..(d - 1) |->
                            [st |-> "none",
                             lo |-> chunkStart(w, size),
                             hi |-> chunkEnd(w, d, size, payloadSize),
                             out |-> chunkOut(w),
                             n |-> 0]]
    /\ pc' = "planned"
    /\ UNCHANGED <<T, r, fields, transformed, kind, chunks, wg, sanitizedFields,
                   i, payloadSize, completed>>

PlanSpec == PlanInit /\ [][PlanChunks]_vars

(***************************************************************************)
(* Properties.                                                             *)
(***************************************************************************)
\* With has returned
Returned == pc = "done"

\* the payload is non-empty and its records are structs or maps
RecordPayload ==
    /\ Len(r.Payload) > 0
    /\ \A j \in 1..Len(r.Payload) : r.Payload[j].k \in {"Struct", "Map"}

\* the requested names after normalization
Normalized == {Trim(fields[j], Cutset) : j \in 1..Len(fields)}

\* C1: length invariant. When With returns for a non-empty payload of struct
\* or map records and a non-empty list of requested names, the returned
\* payload has exactly as many entries as the input payload, however many
\* names resolved and whatever the chunking bucket.
C1_LengthInvariant ==
    (Returned /\ RecordPayload /\ Len(fields) > 0)
        => Len(transformed.Payload) = Len(r.Payload)

\* a payload one past the first threshold, split 50 + 51, with names resolved
C1_Witness ==
    /\ Returned
    /\ Len(r.Payload) = 10^2 + 1
    /\ delta = 2
    /\ sanitizedFields # <<>>
    /\ Len(transformed.Payload) = 10^2 + 1

\* C2: order preservation. For every payload size and every index, entry i
\* of the returned payload is the projection of record i of the input
\* payload, and each of its values is a value of record i, in whatever
\* order the workers ran and finished.
C2_OrderPreserved ==
    (Returned /\ RecordPayload /\ Len(fields) > 0)
        => /\ Len(transformed.Payload) = Len(r.Payload)
           /\ \A j \in 1..Len(r.Payload) :
                 /\ transformed.Payload[j]
                        = projectEntry(kind, r.Payload[j], sanitizedFields, <<>>)
                 /\ \A key \in DOMAIN transformed.Payload[j] :
                        \E f \in DOMAIN r.Payload[j].v :
                            transformed.Payload[j][key] = r.Payload[j].v[f]

\* three workers on 1001 records; the last entry carries the last record
C2_Witness ==
    /\ Returned
    /\ Len(r.Payload) = 10^3 + 1
    /\ delta = 3
    /\ kind = "Struct"
    /\ transformed.Payload[10^3 + 1] = (FirstName :> 10 * (10^3 + 1) + 2)

\* C3: empty-input short-circuit. When no name is requested, or the payload
\* is nil or empty, With returns a result with an empty, non-nil payload and
\* the input's page and records per page; no chunk is planned, the wait
\* counter is not set and no worker is started.
C3_EmptyShortCircuit ==
    (pc # "call" /\ (Len(fields) = 0 \/ r.PayloadNil \/ Len(r.Payload) = 0))
        => /\ Returned
           /\ transformed.Payload = <<>>
           /\ ~transformed.PayloadNil
           /\ transformed.Page = r.Page
           /\ transformed.RPP = r.RPP
           /\ delta = 0
           /\ chunks = <<>>
           /\ wg = 0
           /\ worker = <<>>

\* no name requested for three struct records
C3_Witness ==
    /\ Returned
    /\ Len(fields) = 0
    /\ Len(r.Payload) = 3
    /\ T.kind = "Struct"
    /\ transformed.Payload = <<>>
    /\ ~transformed.PayloadNil

\* C4: names requested but none resolved. With a non-empty list of names
\* that yields no descriptor, With does not take the empty-payload shortcut:
\* for n >= 1 struct or map records it returns n entries, each the empty
\* mapping.
C4_NoneResolved ==
    (Returned /\ RecordPayload /\ Len(fields) > 0
              /\ sanitizeFields(T, fields) = <<>>)
        => /\ Len(transformed.Payload) = Len(r.Payload)
           /\ \A j \in 1..Len(r.Payload) : transformed.Payload[j] = <<>>

\* three struct records, an unknown name and a name that is only padding
C4_Witness ==
    /\ Returned
    /\ T.kind = "Struct"
    /\ Len(r.Payload) = 3
    /\ fields = << <<"u">>, <<"SP">> >>
    /\ sanitizedFields = <<>>
    /\ transformed.Payload = << <<>>, <<>>, <<>> >>

\* C5: no operation fails. With never panics, for any type argument and any
\* list of names.
C5_NeverPanics == pc # "panic"

\* C6: deduplication. No two descriptors returned by sanitizeFields have the
\* same external name, for both record shapes; in particular the names
\* "name", " name " and "name\n" against a schema with the alias name give
\* exactly one descriptor, and every projected record has at most the one
\* key name.
C6_Deduplicated ==
    /\ T.kind # "Interface" =>
          LET s == sanitizeFields(T, fields)
          IN  /\ \A j, k \in 1..Len(s) : snake(s[j]) = snake(s[k]) => j = k
              /\ \A j, k \in 1..Len(fields) :
                    Trim(fields[j], Cutset) = Trim(fields[k], Cutset)
                        => Cardinality({n \in 1..Len(s) :
                               snake(s[n]) = Trim(fields[j], Cutset)}) <= 1
    /\ (T.schema = NameSchema
           /\ fields = <<NameAlias, <<"SP">> \o NameAlias \o <<"SP">>,
                         NameAlias \o <<"NL">> >>)
          => /\ Len(sanitizeFields(T, fields)) = 1
             /\ snake(sanitizeFields(T, fields)[1]) = NameAlias
             /\ \A j \in 1..Len(transformed.Payload) :
                    DOMAIN transformed.Payload[j] \subseteq {NameAlias}

\* the three spellings of name, projected over a two-record payload
C6_Witness ==
    /\ Returned
    /\ T.schema = NameSchema
    /\ fields = <<NameAlias, <<"SP">> \o NameAlias \o <<"SP">>,
                  NameAlias \o <<"NL">> >>
    /\ Len(sanitizedFields) = 1
    /\ Len(transformed.Payload) = 2
    /\ DOMAIN transformed.Payload[1] = {NameAlias}

\* the alias set of a schema, and the first declared field with an alias
Aliases(schema) == {tagValue(schema[c]) : c \in 1..Len(schema)}
FirstWithAlias(schema, a) ==
    schema[CHOOSE c \in 1..Len(schema) :
              /\ tagValue(schema[c]) = a
              /\ \A b \in 1..(c - 1) : tagValue(schema[b]) # a].Name

\* C7: fixed-schema projection. For struct records, the key set of every
\* returned entry is exactly the set of requested names that are non-empty
\* after normalization and equal to the alias of a declared field, each key
\* maps to the record's own value of that field, and a name outside the
\* alias set gives no key. With(["first_name", "first_name ", "unknown", ""])
\* on 3 records resolves [first_name] and returns the 3 entries
\* {first_name: original value} in the original order.
C7_FixedSchemaProjection ==
    /\ (Returned /\ T.kind = "Struct" /\ Len(r.Payload) > 0 /\ Len(fields) > 0)
          => \A j \in 1..Len(r.Payload) :
                /\ j <= Len(transformed.Payload)
                /\ DOMAIN transformed.Payload[j]
                       = {nm \in Normalized : nm # <<>> /\ nm \in Aliases(T.schema)}
                /\ \A key \in DOMAIN transformed.Payload[j] :
                       transformed.Payload[j][key]
                           = r.Payload[j].v[FirstWithAlias(T.schema, key)]
    /\ (Returned /\ T.schema = UserSchema /\ Len(r.Payload) = 3
           /\ fields = <<FirstName, FirstName \o <<"SP">>, Unknown, <<>> >>)
          => /\ sanitizedFields = << <<FirstName, UserSchema[2].Name>> >>
             /\ transformed.Payload
                    = [j \in 1..3 |->
                          (FirstName :> r.Payload[j].v[UserSchema[2].Name])]

\* the scenario call on three User records
C7_Witness ==
    /\ Returned
    /\ T.schema = UserSchema
    /\ Len(r.Payload) = 3
    /\ fields = <<FirstName, FirstName \o <<"SP">>, Unknown, <<>> >>
    /\ Len(transformed.Payload) = 3
    /\ transformed.Payload[2] = (FirstName :> r.Payload[2].v[UserSchema[2].Name])

\* C8: dynamic-record heterogeneity. For map records, entry i has key k
\* exactly when k is the external name of a resolved descriptor and record i
\* has key k, and then carries record i's value; two records of which only
\* the first has x, projected with ["x"], give [{x: value}, {}].
C8_DynamicHeterogeneity ==
    (Returned /\ T.kind = "Map" /\ Len(r.Payload) > 0 /\ Len(fields) > 0)
        => \A j \in 1..Len(r.Payload) :
              /\ j <= Len(transformed.Payload)
              /\ DOMAIN transformed.Payload[j]
                     = {key \in DOMAIN r.Payload[j].v :
                           \E n \in 1..Len(sanitizedFields) :
                               snake(sanitizedFields[n]) = key}
              /\ \A key \in DOMAIN transformed.Payload[j] :
                     transformed.Payload[j][key] = r.Payload[j].v[key]

\* two map records, only the first with key x, projected with ["x"]
C8_Witness ==
    /\ Returned
    /\ T.kind = "Map"
    /\ Len(r.Payload) = 2
    /\ <<"x">> \in DOMAIN r.Payload[1].v
    /\ <<"x">> \notin DOMAIN r.Payload[2].v
    /\ fields = << <<"x">> >>
    /\ transformed.Payload = << (<<"x">> :> r.Payload[1].v[<<"x">>]), <<>> >>

\* C9: pagination metadata. On every return path, and at every step of the
\* pipeline, the result's page and records per page equal the input's.
C9_PaginationCarried ==
    pc \in {"dispatch", "wait", "done"}
        => transformed.Page = r.Page /\ transformed.RPP = r.RPP

\* the full pipeline returned for page 2 with 25 records per page
C9_Witness ==
    /\ Returned
    /\ delta = 1
    /\ Len(transformed.Payload) = 3
    /\ r.Page = 2
    /\ r.RPP = 25
    /\ transformed.Page = 2
    /\ transformed.RPP = 25

\* C10, as claimed: a call with a non-empty payload and a non-empty list of
\* names never returns a payload of length zero.
C10_OnlyShortCircuitEmpties ==
    (Returned /\ Len(r.Payload) > 0 /\ Len(fields) > 0)
        => Len(transformed.Payload) # 0

\* C10, amended: a call with a non-empty payload and a non-empty list of
\* names returns a payload of length zero exactly when the first record is
\* neither a struct nor a map (the second return of With).
C10_EmptyOnlyIfUnsupported ==
    (Returned /\ Len(r.Payload) > 0 /\ Len(fields) > 0)
        => (Len(transformed.Payload) = 0
                <=> r.Payload[1].k \notin {"Struct", "Map"})

\* map records and requested names none of which resolves: two empty entries
C10_Witness ==
    /\ Returned
    /\ T.kind = "Map"
    /\ Len(r.Payload) = 2
    /\ Len(fields) = 2
    /\ sanitizedFields = <<>>
    /\ Len(transformed.Payload) = 2

\* C11: With never mutates its input. No step changes the receiver (page,
\* records per page, payload length, order and content of the records) or
\* the list of requested names, and the result's payload never has the
\* backing array of the input payload.
C11_InputUnchanged ==
    /\ [][r' = r /\ fields' = fields]_vars
    /\ [](pc # "call" => transformed.buf # r.buf)

\* two workers have projected 101 struct records, which are as generated
C11_Witness ==
    /\ Returned
    /\ delta = 2
    /\ T.kind = "Struct"
    /\ r.Payload = MakePayload(T, 0, 10^2 + 1)
    /\ r.buf = "payload"
    /\ transformed.buf = "joined"
    /\ Len(transformed.Payload) = 10^2 + 1

\* the slices that hold index j
RangesWith(j) == {w \in DOMAIN worker : worker[w].lo <= j /\ j < worker[w].hi}

\* the first and last index of every slice, and their neighbours
BoundaryIndices ==
    UNION {{worker[w].lo - 1, worker[w].lo, worker[w].hi - 1, worker[w].hi} :
              w \in DOMAIN worker}

\* C12: chunk partition. For every payload size n, with delta =
\* computeDelta(n) and base = n / delta, slice i is [i*base, (i+1)*base) for
\* i < delta-1 and the last is [(delta-1)*base, n); the slices are
\* contiguous and ascending from 0 to n, so that every index of [0, n) is in
\* exactly one slice and no other index is in any.
C12_ChunkPartition ==
    pc = "planned"
        => LET n == payloadSize
               base == n \div delta
           IN  /\ DOMAIN worker = 0..(delta - 1)
               /\ chunkSize = base
               /\ \A w \in 0..(delta - 2) :
                     /\ worker[w].lo = w * base
                     /\ worker[w].hi = (w + 1) * base
                     /\ worker[w].hi = worker[w + 1].lo
               /\ worker[0].lo = 0
               /\ worker[delta - 1].lo = (delta - 1) * base
               /\ worker[delta - 1].hi = n
               /\ \A w \in 0..(delta - 1) : worker[w].lo <= worker[w].hi
               /\ \A j \in BoundaryIndices \cup {0, n - 1} :
                     Cardinality(RangesWith(j))
                         = IF 0 <= j /\ j < n THEN 1 ELSE 0

\* 1001 indices in three slices, the last one longer by the remainder 2
C12_Witness ==
    /\ pc = "planned"
    /\ payloadSize = 10^3 + 1
    /\ delta = 3
    /\ worker[0].hi - worker[0].lo = 333
    /\ worker[2].lo = 666
    /\ worker[2].hi = 10^3 + 1

\* C13: degree selection. computeDelta(n) is 1 for n <= 100, 2 for
\* 101..1000, 3 for 1001..10000 and 4 from 10001 on, always within 1..4.
C13_DegreeSelection ==
    pc = "planned"
        => /\ delta \in 1..4
           /\ payloadSize <= 100 => delta = 1
           /\ (101 <= payloadSize /\ payloadSize <= 1000) => delta = 2
           /\ (1001 <= payloadSize /\ payloadSize <= 10000) => delta = 3
           /\ payloadSize >= 10001 => delta = 4

\* the first size planned with four chunks
C13_Witness ==
    /\ pc = "planned"
    /\ payloadSize = 10001
    /\ delta = 4

\* C14: for every payload size n >= 1 the base chunk size n / delta is at
\* least 1 and every slice is non-empty.
C14_ChunkSizePositive ==
    (pc = "planned" /\ payloadSize >= 1)
        => /\ chunkSize >= 1
           /\ \A w \in DOMAIN worker : worker[w].hi - worker[w].lo >= 1

\* 101 records: base chunk size 50, slices of 50 and 51
C14_Witness ==
    /\ pc = "planned"
    /\ payloadSize = 101
    /\ chunkSize = 50
    /\ worker[0].hi - worker[0].lo = 50
    /\ worker[1].hi - worker[1].lo = 51

\* the workers that have been started
Started == {w \in DOMAIN worker : worker[w].st # "none"}

\* the payload indices worker w reads, and the chunk it writes
ReadSet(w) == {j \in 0..(payloadSize - 1) : worker[w].lo <= j /\ j < worker[w].hi}
WriteSet(w) == {worker[w].out}

\* what C15 asks of every step taken between dispatch and the join
DisjointStep ==
    pc \in {"dispatch", "wait"} =>
        /\ sanitizedFields' = sanitizedFields
        /\ r' = r
        /\ (i' # i \/ pc' = "done") => chunks' = chunks
        /\ \A c \in DOMAIN chunks :
              chunks'[c] # chunks[c] =>
                  /\ worker[c].st = "ready"
                  /\ \A v \in DOMAIN worker \ {c} :
                        worker'[v] = worker[v] /\ chunks'[v] = chunks[v]
                  /\ chunks'[c] = chunks[c] \o
                         [j \in 1..(Len(chunks'[c]) - Len(chunks[c])) |->
                             projectEntry(kind,
                                 r.Payload[worker[c].lo + worker[c].n + j],
                                 sanitizedFields, <<>>)]
                  /\ worker[c].lo + worker[c].n + Len(chunks'[c]) - Len(chunks[c])
                         <= worker[c].hi

\* C15: race freedom by disjointness. Worker w reads only the payload
\* indices of slice w and the descriptor list, which nothing writes while
\* workers run, and writes only chunks[w]: the read and write sets of two
\* workers do not meet, a chunk changes only by a step of its own worker,
\* which appends the projections of the next entries of its own slice, and
\* no step of With between dispatch and the join changes a chunk.
C15_DisjointAccess ==
    /\ [](\A w \in Started :
            /\ WriteSet(w) = {w}
            /\ worker[w].lo = w * chunkSize
            /\ \A v \in Started \ {w} :
                  /\ WriteSet(w) \cap WriteSet(v) = {}
                  /\ (payloadSize <= MaxStepped
                          => ReadSet(w) \cap ReadSet(v) = {})
                  /\ (worker[w].hi <= worker[v].lo \/ worker[v].hi <= worker[w].lo))
    /\ [][DisjointStep]_vars

\* worker 1 is half way through its slice and worker 0 a third of the way
C15_Witness ==
    /\ pc = "wait"
    /\ delta = 2
    /\ worker[0].st = "ready"
    /\ worker[1].st = "ready"
    /\ Len(chunks[0]) = 17
    /\ Len(chunks[1]) = 25
    /\ worker[1].n = 25

\* the workers that have signalled completion
Signalled == {w \in DOMAIN worker : worker[w].st = "done"}

\* what C16 asks of every step: the counter is set to delta by With before
\* any worker exists, and otherwise goes down by one with one worker's Done
CounterStep ==
    \/ wg' = wg
    \/ /\ pc = "call"
       /\ worker = <<>>
       /\ wg' = delta'
       /\ \A w \in DOMAIN worker' : worker'[w].st = "none"
    \/ /\ wg' = wg - 1
       /\ \E w \in DOMAIN worker :
             /\ worker[w].st = "ran"
             /\ worker'[w].st = "done"
             /\ \A v \in DOMAIN worker \ {w} : worker'[v] = worker[v]

\* C16: join barrier. Once the pipeline is planned the wait counter is delta
\* minus the number of workers that signalled completion, never negative,
\* and zero exactly when all have; a worker signals only after the entry of
\* the last record of its slice is appended; the result's payload is joined,
\* and With returns, only when every worker has signalled.
C16_JoinBarrier ==
    /\ [](delta > 0 =>
            /\ wg = delta - Cardinality(Signalled)
            /\ wg >= 0
            /\ (wg = 0 <=> Signalled = DOMAIN worker)
            /\ \A w \in Signalled :
                  /\ worker[w].n = worker[w].hi - worker[w].lo
                  /\ Len(chunks[w]) = worker[w].hi - worker[w].lo
                  /\ (worker[w].hi > worker[w].lo =>
                         chunks[w][Len(chunks[w])]
                             = projectEntry(kind, r.Payload[worker[w].hi],
                                            sanitizedFields, <<>>))
            /\ (pc = "done" \/ transformed.Payload # <<>>)
                   => Signalled = DOMAIN worker)
    /\ [][CounterStep]_vars

\* With has returned from the join of two workers
C16_Witness ==
    /\ Returned
    /\ delta = 2
    /\ wg = 0
    /\ worker[0].st = "done"
    /\ worker[1].st = "done"
    /\ Len(chunks[0]) = 50
    /\ Len(chunks[1]) = 51
    /\ Len(transformed.Payload) = 101

\* chunks[0] followed by chunks[1] ... followed by chunks[delta - 1]
JoinedChunks ==
    LET part(w) == IF w < delta THEN chunks[w] ELSE <<>>
    IN  part(0) \o part(1) \o part(2) \o part(3)

\* the payload the call's inputs determine, with no reference to the workers
DeterminedPayload ==
    [j \in 1..Len(r.Payload) |->
        projectEntry(r.Payload[1].k, r.Payload[j], sanitizeFields(T, fields),
                     <<>>)]

\* what C17 asks of the step that returns: whatever order the workers
\* completed in, the payload becomes the chunks in ascending index order
JoinStep ==
    (pc = "wait" /\ pc' = "done")
        => /\ Len(completed) = delta
           /\ transformed'.Payload = JoinedChunks'

\* C17: deterministic result under concurrency. For every interleaving and
\* every completion order of the workers, the returned payload is chunks[0]
\* followed by chunks[1] up to chunks[delta - 1], untransformed, and is the
\* same function of the input result and the field list.
C17_Deterministic ==
    /\ []((Returned /\ delta > 0) =>
            /\ Len(transformed.Payload) = payloadSize
            /\ transformed.Payload = JoinedChunks
            /\ transformed.Payload = DeterminedPayload)
    /\ [][JoinStep]_vars

\* the worker of the second chunk completed before the worker of the first,
\* and the first entry of the result is still the one of the first record
C17_Witness ==
    /\ Returned
    /\ delta = 2
    /\ completed = <<1, 0>>
    /\ kind = "Map"
    /\ Len(sanitizedFields) > 0
    /\ transformed.Payload[1] = chunks[0][1]
    /\ transformed.Payload[1] = projectEntry(kind, r.Payload[1],
                                             sanitizedFields, <<>>)
    /\ transformed.Payload[payloadSize] = chunks[1][Len(chunks[1])]

\* C18: bounded fan-out and termination. A call that reaches the pipeline
\* plans between one and four workers, one per chunk, starts no other, and
\* never stops short of its return: in every state either With has returned
\* or some worker or the orchestrator can take a step.
C18_FanOutAndTermination ==
    delta > 0 =>
        /\ delta \in 1..4
        /\ DOMAIN worker = 0..(delta - 1)
        /\ DOMAIN chunks = DOMAIN worker
        /\ \A w \in DOMAIN worker : worker[w].st # "none" => w < i \/ pc = "wait" \/ Returned
        /\ (Returned \/ ENABLED Next)

\* requested name number j after normalization
NormalizedAt(j) == Trim(fields[j], Cutset)

\* the positions of the request that contribute a descriptor for a schema:
\* non-empty after normalization, an alias, and not seen at an earlier position
FirstSeen(schema) ==
    {j \in 1..Len(fields) :
        /\ NormalizedAt(j) # <<>>
        /\ NormalizedAt(j) \in Aliases(schema)
        /\ \A k \in 1..(j - 1) : NormalizedAt(k) # NormalizedAt(j)}

\* C19: field resolver for fixed-schema records. sanitizeFields returns one
\* descriptor per requested position whose normalized name is non-empty, is
\* a declared alias and was not seen before, in the order of these
\* positions, and each descriptor pairs the name with the identifier of the
\* first declared field that carries the alias; the workers are given
\* exactly these descriptors.
C19_StructResolver ==
    T.kind = "Struct" =>
        LET s == sanitizeFields(T, fields)
            seen == FirstSeen(T.schema)
        IN  /\ Len(s) = Cardinality(seen)
            /\ \A j \in seen :
                  s[Cardinality({k \in seen : k <= j})]
                      = <<NormalizedAt(j), FirstWithAlias(T.schema, NormalizedAt(j))>>
            /\ pc \in {"dispatch", "wait", "done"} /\ delta > 0
                   => sanitizedFields = s

\* y is requested before x against a schema that declares x, twice, before y
C19_Witness ==
    /\ Returned
    /\ T.schema = SchemaXY
    /\ fields = << <<"y">>, <<"SP", "x", "SP">> >>
    /\ sanitizedFields = << << <<"y">>, <<"Y">> >>, << <<"x">>, <<"X">> >> >>
    /\ Len(transformed.Payload) = 2
    /\ DOMAIN transformed.Payload[2] = { <<"x">>, <<"y">> }

\* the positions of the request that contribute a descriptor for map
\* records: non-empty after normalization and not seen at an earlier position
FirstSeenKeys ==
    {j \in 1..Len(fields) :
        /\ NormalizedAt(j) # <<>>
        /\ \A k \in 1..(j - 1) : NormalizedAt(k) # NormalizedAt(j)}

\* C20 as stated: every descriptor resolved for map records has its second
\* string equal to its first
C20_InternalEqualsExternal ==
    T.kind = "Map" =>
        LET s == sanitizeFields(T, fields)
        IN  \A n \in 1..Len(s) : pascal(s[n]) = snake(s[n])

\* C20: field resolver for map records. Every requested position whose
\* normalized name is non-empty and not seen before gives, with no schema
\* check, one descriptor, in the order of these positions; its first string
\* is the name and its second string is left empty, and the workers look the
\* records' keys up by the first string alone.
C20_MapResolver ==
    T.kind = "Map" =>
        LET s == sanitizeFields(T, fields)
        IN  /\ Len(s) = Cardinality(FirstSeenKeys)
            /\ \A j \in FirstSeenKeys :
                  s[Cardinality({k \in FirstSeenKeys : k <= j})]
                      = <<NormalizedAt(j), <<>> >>
            /\ (Returned /\ delta > 0) =>
                  /\ sanitizedFields = s
                  /\ \A j \in 1..Len(transformed.Payload) :
                        /\ DOMAIN transformed.Payload[j]
                               = {snake(s[n]) : n \in 1..Len(s)}
                                     \cap DOMAIN r.Payload[j].v
                        /\ \A key \in DOMAIN transformed.Payload[j] :
                               transformed.Payload[j][key] = r.Payload[j].v[key]

\* a name no record has and a padded key, requested of two map records
C20_Witness ==
    /\ Returned
    /\ T.kind = "Map"
    /\ fields = << <<"u">>, <<"SP", "x", "SP">> >>
    /\ sanitizedFields = << << <<"u">>, <<>> >>, << <<"x">>, <<>> >> >>
    /\ Len(transformed.Payload) = 2
    /\ \E j \in 1..2 : DOMAIN transformed.Payload[j] = { <<"x">> }

====
